---- MODULE Spec2Model ----
(***************************************************************************)
(* complex-vis: the escape-time field painter (Painter), the quadratic     *)
(* iteration (Iterator, Complex), the draggable markers (MovableMarker)    *)
(* and the event loop (EventsLoop) of complex.js.                          *)
(*                                                                         *)
(* Numbers.  The program computes with IEEE doubles.  Here a number is a   *)
(* fixed-point integer counting hundredths (SCALE = 1.0), rounded to the   *)
(* nearest hundredth after every multiplication or division; a finite      *)
(* result beyond Big overflows to PInf / NInf and the undefined forms      *)
(* (Inf - Inf, Inf * 0) give NaN, whose comparisons are all false, as in   *)
(* the floating-point arithmetic of the program.                           *)
(***************************************************************************)
EXTENDS Integers, Sequences, FiniteSets, TLC

\* ------------------------------------------------------------------ bounds
MaxW == 2            \* canvas widths 1..MaxW
MaxH == 2            \* canvas heights 1..MaxH
MaxCells == 4        \* at most MaxCells field cells: W * H <= MaxCells
MaxBatch == 2        \* PIXEL_BATCH ranges over 1..MaxBatch
MaxOverrun == 1
MaxControl == 3
ArithMax == 4        \* Iterator on its own: operands with parts in -ArithMax..ArithMax      \* ticks are delivered while currentPixel.x < W + MaxOverrun
CellPx == 100        \* canvas pixels per field cell, each way (see "Canvas")
GridMax == 2         \* classifier check: coordinates GridStep * (-GridMax..GridMax)

\* --------------------------------------------------------- number model
SCALE == 100                       \* the fixed-point image of 1.0
Big == 460 * SCALE                 \* largest finite magnitude (Big * Big < 2^31)
PInf == Big + 1
NInf == 0 - (Big + 1)
NaN == Big + 2

IsNaN(a) == a = NaN
IsInf(a) == a = PInf \/ a = NInf
IsFinite(a) == a <= Big /\ a >= 0 - Big
Sign(a) == IF a > 0 THEN 1 ELSE IF a < 0 THEN -1 ELSE 0

\* n / d rounded to the nearest integer (d > 0)
Round(n, d) == (n \div d) + (IF 2 * (n % d) >= d THEN 1 ELSE 0)

Overflow(v) == IF v > Big THEN PInf ELSE IF v < 0 - Big THEN NInf ELSE v

FAdd(a, b) ==
    IF IsFinite(a) /\ IsFinite(b) THEN Overflow(a + b)
    ELSE IF IsNaN(a) \/ IsNaN(b) THEN NaN
    ELSE IF IsInf(a) /\ IsInf(b) THEN (IF a = b THEN a ELSE NaN)
    ELSE IF IsInf(a) THEN a
    ELSE b

FNeg(a) == IF IsNaN(a) THEN NaN ELSE 0 - a

FSub(a, b) == FAdd(a, FNeg(b))

FMul(a, b) ==
    IF IsFinite(a) /\ IsFinite(b) THEN Overflow(Round(a * b, SCALE))
    ELSE IF IsNaN(a) \/ IsNaN(b) THEN NaN
    ELSE IF a = 0 \/ b = 0 THEN NaN
    ELSE IF Sign(a) * Sign(b) > 0 THEN PInf ELSE NInf

\* Math.abs
FAbs(a) == IF IsNaN(a) THEN NaN ELSE IF a < 0 THEN 0 - a ELSE a

\* a > b and a < b; every comparison with NaN is false
FGt(a, b) == ~IsNaN(a) /\ ~IsNaN(b) /\ a > b
FLt(a, b) == ~IsNaN(a) /\ ~IsNaN(b) /\ a < b

\* ------------------------------------------------------------- Complex
Complex(r, i) == [r |-> r, i |-> i]

add(a, b) == Complex(FAdd(a.r, b.r), FAdd(a.i, b.i))

\* multiply with the sign of the imaginary product lost
multiplyNoSign(a, b) ==
    Complex(FAdd(FMul(a.r, b.r), FMul(a.i, b.i)),
            FAdd(FMul(a.r, b.i), FMul(a.i, b.r)))

multiply(a, b) ==
    Complex(FSub(FMul(a.r, b.r), FMul(a.i, b.i)),
            FAdd(FMul(a.r, b.i), FMul(a.i, b.r)))

\* ------------------------------------------------------------ Iterator
\* Iterator.iter: z*z, plus the second entry when there is one
iter(complexes) ==
    LET res == multiply(complexes[1], complexes[1])
    IN  IF Len(complexes) > 1 THEN add(res, complexes[2]) ELSE res

\* new Iterator(tctx, markers) without the test of the marker list
newIteratorUnchecked(ms) ==
    [outcome |-> "object",
     object |-> <<[markers |-> ms, MAX_ITER |-> 1000, ITER_RADIUS |-> 1]>>]

\* new Iterator(tctx, markers): the outcome and the objects created, none when the
\* constructor throws.  (`Exception` is no global of the language: evaluating
\* `new Exception(...)` raises a ReferenceError, an error all the same.)
newIterator(ms) ==
    IF Len(ms) = 0 THEN [outcome |-> "error", object |-> <<>>]
    ELSE [outcome |-> "object",
          object |-> <<[markers |-> ms, MAX_ITER |-> 1000, ITER_RADIUS |-> 1]>>]

\* The loop of Iterator.render entered with the loop counter `index`: the orbit
\* values it computes and draws, in order.  The loop ends when index reaches
\* maxIter, and after a value below MAX_ITER_DIST_FROM_0 = 0.01 on both axes.
RECURSIVE traceLoop(_, _, _)
traceLoop(complexes, index, maxIter) ==
    IF index >= maxIter THEN <<>>
    ELSE LET z == iter(complexes)
         IN  IF FLt(FAbs(z.r), SCALE \div 100) /\ FLt(FAbs(z.i), SCALE \div 100)
             THEN <<z>>
             ELSE <<z>> \o traceLoop([complexes EXCEPT ![1] = z], index + 1, maxIter)

\* Iterator.render: the fields it reads from the controls (its drawing is no state)
iteratorRender(it, ctl) ==
    [markers |-> it.markers, MAX_ITER |-> ctl.iterations, ITER_RADIUS |-> ctl.radius,
     ITER_LINE_WIDTH |-> ctl.lineWidth]

\* ------------------------------------------------------------- Painter
ITER_COLORS ==
    <<
       <<0, 73, 229>>, <<3, 71, 228>>, <<6, 70, 227>>, <<10, 69, 227>>, <<13, 68, 226>>, <<17, 67, 225>>,
       <<20, 66, 225>>, <<24, 64, 224>>, <<27, 63, 223>>, <<31, 62, 223>>, <<34, 61, 222>>, <<38, 60, 222>>,
       <<41, 59, 221>>, <<45, 57, 220>>, <<48, 56, 220>>, <<52, 55, 219>>, <<55, 54, 218>>, <<59, 53, 218>>,
       <<62, 52, 217>>, <<66, 50, 216>>, <<69, 49, 216>>, <<73, 48, 215>>, <<76, 47, 215>>, <<79, 46, 214>>,
       <<83, 45, 213>>, <<86, 44, 213>>, <<90, 42, 212>>, <<93, 41, 211>>, <<97, 40, 211>>, <<100, 39, 210>>,
       <<104, 38, 209>>, <<107, 37, 209>>, <<111, 35, 208>>, <<114, 34, 208>>, <<118, 33, 207>>, <<121, 32, 206>>,
       <<125, 31, 206>>, <<128, 30, 205>>, <<132, 28, 204>>, <<135, 27, 204>>, <<139, 26, 203>>, <<142, 25, 202>>,
       <<146, 24, 202>>, <<149, 23, 201>>, <<152, 22, 201>>, <<156, 20, 200>>, <<159, 19, 199>>, <<163, 18, 199>>,
       <<166, 17, 198>>, <<170, 16, 197>>, <<173, 15, 197>>, <<177, 13, 196>>, <<180, 12, 195>>, <<184, 11, 195>>,
       <<187, 10, 194>>, <<191, 9, 194>>, <<194, 8, 193>>, <<198, 6, 192>>, <<201, 5, 192>>, <<205, 4, 191>>,
       <<208, 3, 190>>, <<212, 2, 190>>, <<215, 1, 189>>, <<219, 0, 189>>
    >>


VARIABLES
    W, H,             \* canvas.width, canvas.height = imageData.width, imageData.height
    PIXEL_BATCH,      \* Painter.PIXEL_BATCH
    markers,          \* marker name -> [x, y, selected] (MovableMarker fields)
    domVariable,      \* value of the 'painter-marker-variable' control
    controls,         \* values of the 'iterations', '-radius' and '-line-width' controls
    variableMarker,   \* Painter.variableMarker, the cached copy of that value
    imageData,        \* Painter.imageData.data, one <<R, G, B, A>> per pixel index
    currentPixel,     \* Painter.currentPixel, [x, y]
    writes,           \* history: the buffer writes of the current generation, in order
    fullTicks,        \* history: ticks since the last reset, -1 once one was cut short
    tickLog,          \* history: the log of the last tick when ticks are logged (SpecLogged)
    notified,         \* history: markers whose update handlers ran in the last callback
    beforeFilled,     \* history: number of non-blank pixels before the last callback
    probe,            \* the inputs [start, c] of a pure function applied on its own
    probeColor,       \* the color _getPixelColor's loop returned for probe, or <<>>
    opResult,         \* the last call of add, multiply or iter on probe, or <<>>
    ctorArg,          \* the marker list given to new Iterator(tctx, markers)
    ctorOutcome,      \* "none" before the constructor ran, then "object" or "error"
    iterator,         \* the Iterator objects created: none or one
    shadow,           \* a second run of the page: its markers, buffer and cursor
    callLog,          \* history: the calls of the last mouse event when they are logged
    updateLog,        \* history: the onChange calls of that event, <<marker, handler>>
    components,       \* EventsLoop.components, each component by its name
    renderLog         \* history: the render calls of the last redraw, in order

vars == <<W, H, PIXEL_BATCH, markers, domVariable, controls, variableMarker, imageData,
          currentPixel, writes, fullTicks, tickLog, notified,
          beforeFilled, probe, probeColor, opResult, ctorArg, ctorOutcome, iterator,
          shadow, callLog, updateLog, components, renderLog>>

\* the variables of the Iterator and of the calls of its pure functions
iterVars == <<opResult, ctorArg, ctorOutcome>>

\* the variables outside the painter, the markers and the controls
checkVars == <<probe, probeColor, iterVars, controls, shadow, callLog, updateLog, components>>

PIXEL_BATCH_INTERVAL == 10
RADIUS == 5
MarkerNames == <<"A", "B">>
Names == {MarkerNames[k] : k \in 1..Len(MarkerNames)}

Hundredth == SCALE \div 100         \* the fixed-point image of 0.01

\* new TranslatingContext(canvas, 2.0, 2.0, 0.2): tctx.width and tctx.height
TctxWidth == 2 * SCALE
TctxHeight == 2 * SCALE

\* Canvas.  The program's field buffer has one entry per canvas pixel and its canvas
\* is hundreds of pixels wide, the markers' hit radius (4 * RADIUS) a small part of
\* it.  To keep that geometry with a small buffer, the canvas here is W * CellPx by
\* H * CellPx pixels and the buffer holds one entry per cell of CellPx by CellPx
\* pixels: W and H count cells, Painter.currentPixel is a cell, and the mouse and the
\* markers are placed in canvas pixels.
canvasWidth == W * CellPx
canvasHeight == H * CellPx

\* _fromCanvasX on a canvas cw pixels wide: (x - canvasWidth / 2) * width / canvasWidth
planeX(x, cw) == Round((x * SCALE - (cw * SCALE) \div 2) * TctxWidth, cw * SCALE)

\* _fromCanvasY on a canvas ch pixels high: (y - canvasHeight / 2) * -height / canvasHeight
planeY(y, ch) == Round((y * SCALE - (ch * SCALE) \div 2) * (0 - TctxHeight), ch * SCALE)

\* _toCanvasX: x / width * canvasWidth + canvasWidth / 2, in hundredths of a pixel
pixelX(x, cw) == Round(x * cw * SCALE, TctxWidth) + (cw * SCALE) \div 2

\* _toCanvasY: -(y / height * canvasHeight) + canvasHeight / 2, in hundredths of a pixel
pixelY(y, ch) == (0 - Round(y * ch * SCALE, TctxHeight)) + (ch * SCALE) \div 2

fromCanvasX(x) == planeX(x, canvasWidth)
fromCanvasY(y) == planeY(y, canvasHeight)
toCanvasX(x) == pixelX(x, canvasWidth)
toCanvasY(y) == pixelY(y, canvasHeight)

inverseTransform(pos) == [x |-> fromCanvasX(pos.x), y |-> fromCanvasY(pos.y)]

transform(pos) == [x |-> toCanvasX(pos.x), y |-> toCanvasY(pos.y)]

\* new MovableMarker(tctx, 0.1, 0.2, 'A', 'red'), new MovableMarker(tctx, -0.3, -0.5, 'B', 'green')
InitialMarkers ==
    [n \in Names |-> IF n = "A" THEN [x |-> 10, y |-> 20, selected |-> FALSE]
                                ELSE [x |-> -30, y |-> -50, selected |-> FALSE]]

\* The mouse positions of the events on a canvas of cw by ch pixels, in whole pixels:
\* the two places where a press lands in the middle of the hit disc of a marker at
\* its first position.
MousePositionsOn(cw, ch) ==
    {[x |-> Round(pixelX(InitialMarkers[n].x, cw), SCALE) + RADIUS,
      y |-> Round(pixelY(InitialMarkers[n].y, ch), SCALE) + RADIUS] : n \in Names}

MousePositions == MousePositionsOn(canvasWidth, canvasHeight)

Blank == <<255, 255, 255, 255>>
StartPixel == [x |-> -1, y |-> 0]

\* colorLoop with the escape test passing when either axis is beyond 1.0
RECURSIVE colorLoopAnyAxis(_, _)
colorLoopAnyAxis(complexes, color) ==
    IF color >= Len(ITER_COLORS) THEN ITER_COLORS[Len(ITER_COLORS)]
    ELSE LET prev == complexes[1]
             z == iter(complexes)
         IN  IF \/ FGt(FAbs(z.i), SCALE) \/ FGt(FAbs(z.r), SCALE)
                \/ FLt(FAbs(FSub(z.i, prev.i)), Hundredth) /\ FLt(FAbs(FSub(z.r, prev.r)), Hundredth)
             THEN ITER_COLORS[color + 1]
             ELSE colorLoopAnyAxis([complexes EXCEPT ![1] = z], color + 1)

\* the iteration loop of _getPixelColor, entered with the loop counter `color`
RECURSIVE colorLoop(_, _)
colorLoop(complexes, color) ==
    IF color >= Len(ITER_COLORS) THEN ITER_COLORS[Len(ITER_COLORS)]
    ELSE LET prev == complexes[1]
             z == iter(complexes)
         IN  IF \/ FGt(FAbs(z.i), SCALE) /\ FGt(FAbs(z.r), SCALE)
                \/ FLt(FAbs(FSub(z.i, prev.i)), Hundredth) /\ FLt(FAbs(FSub(z.r, prev.r)), Hundredth)
             THEN ITER_COLORS[color + 1]
             ELSE colorLoop([complexes EXCEPT ![1] = z], color + 1)

\* the list of the markers' own values, the pixel substituted for none of them
pixelComplexesNoSweep(ms, vm, pixel) ==
    [k \in 1..Len(MarkerNames) |-> Complex(ms[MarkerNames[k]].x, ms[MarkerNames[k]].y)]

\* the list with the pixel always first, as the start, and the other marker as c
pixelComplexesVariableFirst(ms, vm, pixel) ==
    LET itPixel == inverseTransform([x |-> pixel.x * CellPx, y |-> pixel.y * CellPx])
        fixed == CHOOSE n \in DOMAIN ms : n /= vm
    IN  <<Complex(itPixel.x, itPixel.y), Complex(ms[fixed].x, ms[fixed].y)>>

\* the marker list of _getPixelColor with the pixel substituted for the variable
\* marker, for a painter whose iterator's markers are ms and whose variableMarker is vm
pixelComplexesOf(ms, vm, pixel) ==
    [k \in 1..Len(MarkerNames) |->
        IF MarkerNames[k] = vm
        THEN LET itPixel == inverseTransform([x |-> pixel.x * CellPx, y |-> pixel.y * CellPx])
             IN  Complex(itPixel.x, itPixel.y)
        ELSE Complex(ms[MarkerNames[k]].x, ms[MarkerNames[k]].y)]

pixelComplexes(pixel) == pixelComplexesOf(markers, variableMarker, pixel)

\* The marker lists the field of a canvas of w by h cells is computed from: a cell
\* (column w included) in one slot and, in the other, a place the other marker can
\* be dragged to from MousePositionsOn.
FieldComplexes(w, h) ==
    LET cells == {Complex(planeX(x * CellPx, w * CellPx), planeY(y * CellPx, h * CellPx))
                     : x \in 0..w, y \in 0..(h - 1)}
        places(n) == {Complex(InitialMarkers[n].x, InitialMarkers[n].y)}
                     \cup {Complex(planeX(real.x - RADIUS * 2, w * CellPx),
                                   planeY(real.y - RADIUS * 2, h * CellPx))
                              : real \in MousePositionsOn(w * CellPx, h * CellPx)}
    IN  {<<z, c>> : z \in cells, c \in places("B")}
        \cup {<<z, c>> : z \in places("A"), c \in cells}

\* colorLoop tabulated once over those lists, so that an orbit is not iterated anew
\* in every state; a list that is not in the table is iterated on the spot.
colorTable ==
    [complexes \in UNION {FieldComplexes(w, h) : w \in 1..MaxW, h \in 1..MaxH}
        |-> colorLoop(complexes, 0)]

\* _getPixelColor with its loop bounded by Iterator.MAX_ITER as well: a color whose
\* index is not below MAX_ITER is not reached, and the last color is returned
getPixelColorMaxIter(ms, vm, pixel) ==
    LET complexes == pixelComplexesOf(ms, vm, pixel)
        color == IF complexes \in DOMAIN colorTable THEN colorTable[complexes]
                 ELSE colorLoop(complexes, 0)
        index == CHOOSE k \in 1..Len(ITER_COLORS) : ITER_COLORS[k] = color
    IN  IF \E k \in 1..Len(iterator) : index - 1 >= iterator[k].MAX_ITER
        THEN ITER_COLORS[Len(ITER_COLORS)] ELSE color

getPixelColorOf(ms, vm, pixel) ==
    LET complexes == pixelComplexesOf(ms, vm, pixel)
    IN  IF complexes \in DOMAIN colorTable THEN colorTable[complexes]
        ELSE colorLoop(complexes, 0)

getPixelColor(pixel) == getPixelColorOf(markers, variableMarker, pixel)

\* The painter as a value: the buffer, the cursor, the write history, what it reads
\* through this.iterator.markers and this.variableMarker, and the list `complexes`
\* of the last call of _getPixelColor (none when computeNextPixel returned early).
PainterState == [data |-> imageData, cur |-> currentPixel, writes |-> writes,
                 fullTicks |-> fullTicks, markers |-> markers,
                 variableMarker |-> variableMarker, complexes |-> <<>>]

\* resetImage blanking the buffer and leaving the cursor where it is
resetImageKeepsCursor(p, updatedName) ==
    IF updatedName /= "undefined" /\ updatedName = p.variableMarker THEN p
    ELSE [p EXCEPT !.data = [n \in DOMAIN p.data |-> Blank], !.writes = <<>>,
                   !.fullTicks = 0]

\* resetImage moving the cursor to the start and leaving the buffer as it is
resetImageCursorOnly(p, updatedName) ==
    IF updatedName /= "undefined" /\ updatedName = p.variableMarker THEN p
    ELSE [p EXCEPT !.cur = StartPixel, !.writes = <<>>, !.fullTicks = 0]

\* resetImage without its early return for the variable marker
resetImageAlways(p, updatedName) ==
    [p EXCEPT !.data = [n \in DOMAIN p.data |-> Blank], !.cur = StartPixel,
              !.writes = <<>>, !.fullTicks = 0]

\* Painter.resetImage(updatedMarker); updatedName is updatedMarker.name, "undefined"
\* when the argument is missing or is the change event
resetImage(p, updatedName) ==
    IF updatedName /= "undefined" /\ updatedName = p.variableMarker THEN p
    ELSE [p EXCEPT !.data = [n \in DOMAIN p.data |-> Blank], !.cur = StartPixel,
                   !.writes = <<>>, !.fullTicks = 0]

\* a store into imageData.data: a typed array drops a store past its end
storePixel(data, i, rgba) ==
    IF i \in DOMAIN data THEN [data EXCEPT ![i] = rgba] ELSE data

\* computeNextPixel wrapping to the start of the same row
computeNextPixelSameRow(p) ==
    LET x1 == p.cur.x + 1
        cur1 == IF x1 > W /\ p.cur.y < H
                THEN [x |-> 0, y |-> p.cur.y]
                ELSE [x |-> x1, y |-> p.cur.y]
    IN  IF cur1.y >= H THEN [p EXCEPT !.cur = cur1, !.complexes = <<>>]
        ELSE LET i == cur1.x + cur1.y * W
                 color == getPixelColorOf(p.markers, p.variableMarker, cur1)
             IN  [p EXCEPT !.cur = cur1,
                           !.complexes = pixelComplexesOf(p.markers, p.variableMarker, cur1),
                           !.data = storePixel(p.data, i, <<color[1], color[2], color[3], 250>>),
                           !.writes = <<>>]

\* computeNextPixel with the buffer index taken column by column
computeNextPixelTransposed(p) ==
    LET x1 == p.cur.x + 1
        cur1 == IF x1 > W /\ p.cur.y < H
                THEN [x |-> 0, y |-> p.cur.y + 1]
                ELSE [x |-> x1, y |-> p.cur.y]
    IN  IF cur1.y >= H THEN [p EXCEPT !.cur = cur1, !.complexes = <<>>]
        ELSE LET i == cur1.y + cur1.x * H
                 color == getPixelColorOf(p.markers, p.variableMarker, cur1)
             IN  [p EXCEPT !.cur = cur1,
                           !.complexes = pixelComplexesOf(p.markers, p.variableMarker, cur1),
                           !.data = storePixel(p.data, i, <<color[1], color[2], color[3], 250>>),
                           !.writes = Append(p.writes,
                                             [i |-> i, x |-> cur1.x, y |-> cur1.y,
                                              variable |-> p.variableMarker])]

\* Painter.computeNextPixel
computeNextPixel(p) ==
    LET x1 == p.cur.x + 1
        cur1 == IF x1 > W /\ p.cur.y < H
                THEN [x |-> 0, y |-> p.cur.y + 1]
                ELSE [x |-> x1, y |-> p.cur.y]
    IN  IF cur1.y >= H THEN [p EXCEPT !.cur = cur1, !.complexes = <<>>]
        ELSE LET i == cur1.x + cur1.y * W
                 color == getPixelColorOf(p.markers, p.variableMarker, cur1)
             IN  [p EXCEPT !.cur = cur1,
                           !.complexes = pixelComplexesOf(p.markers, p.variableMarker, cur1),
                           !.data = storePixel(p.data, i, <<color[1], color[2], color[3], 250>>),
                           !.writes = Append(p.writes,
                                             [i |-> i, x |-> cur1.x, y |-> cur1.y,
                                              variable |-> p.variableMarker])]

\* What Date.now() - start can be at a call of Date.now() in computeBatchPixels: the
\* clock is an input, read anew at every call, and may stand still or run backwards.
ClockElapsed == {-1, PIXEL_BATCH_INTERVAL, PIXEL_BATCH_INTERVAL + 1}

\* batchLoop with the time check skipping one pixel (continue) instead of ending the tick
RECURSIVE batchLoopContinue(_, _)
batchLoopContinue(p, index) ==
    IF index >= PIXEL_BATCH THEN {[p |-> p, log |-> <<>>, cut |-> FALSE]}
    ELSE LET skipped == batchLoopContinue(p, index + 1)
             next == computeNextPixel(p)
             rest == batchLoopContinue(next, index + 1)
         IN  UNION {IF elapsed > PIXEL_BATCH_INTERVAL
                    THEN {[r EXCEPT !.log = <<<<"now", elapsed>>>> \o r.log, !.cut = TRUE]
                             : r \in skipped}
                    ELSE {[r EXCEPT !.log = <<<<"now", elapsed>>,
                                             <<"pixel", index, next.cur, next.complexes>>>>
                                           \o r.log]
                             : r \in rest}
                    : elapsed \in ClockElapsed}

\* The loop of Painter.computeBatchPixels from counter `index` on: the set of its
\* possible results, one for each sequence of clock readings. A result carries the
\* painter and the log of the loop, <<"now", elapsed>> for a clock reading and
\* <<"pixel", index, cursor, complexes>> for a call of computeNextPixel, with the
\* cursor it moved to and the list it classified, in the order they happened.
RECURSIVE batchLoop(_, _)
batchLoop(p, index) ==
    IF index >= PIXEL_BATCH THEN {[p |-> p, log |-> <<>>, cut |-> FALSE]}
    ELSE LET next == computeNextPixel(p)
             rest == batchLoop(next, index + 1)
         IN  UNION {IF elapsed > PIXEL_BATCH_INTERVAL
                    THEN {[p |-> p, log |-> <<<<"now", elapsed>>>>, cut |-> TRUE]}
                    ELSE {[r EXCEPT !.log = <<<<"now", elapsed>>,
                                             <<"pixel", index, next.cur, next.complexes>>>>
                                           \o r.log]
                             : r \in rest}
                    : elapsed \in ClockElapsed}

computeBatchPixels(p) == batchLoop(p, 0)

Filled(data) == Cardinality({n \in DOMAIN data : data[n] /= Blank})

\* ------------------------------------------------------- MovableMarker
\* _onMouseDown: real positions are whole canvas pixels, compared in hundredths
onMouseDown(m, realX, realY) ==
    LET myPos == transform([x |-> m.x, y |-> m.y])
        dx == myPos.x + RADIUS * SCALE - realX * SCALE
        dy == myPos.y + RADIUS * SCALE - realY * SCALE
    IN  IF dx * dx + dy * dy < (RADIUS * 4 * SCALE) * (RADIUS * 4 * SCALE)
        THEN [m EXCEPT !.selected = TRUE] ELSE m

\* _onMouseMove without the test of `selected`
onMouseMoveAlways(m, realX, realY) ==
    LET newPos == inverseTransform([x |-> realX - RADIUS * 2, y |-> realY - RADIUS * 2])
    IN  [m EXCEPT !.x = newPos.x, !.y = newPos.y]

\* _onMouseMove
onMouseMove(m, realX, realY) ==
    IF m.selected
    THEN LET newPos == inverseTransform([x |-> realX - RADIUS * 2, y |-> realY - RADIUS * 2])
         IN  [m EXCEPT !.x = newPos.x, !.y = newPos.y]
    ELSE m

\* _onMouseUp, the marker's side
onMouseUp(m) == [m EXCEPT !.selected = FALSE]

\* _onMouseUp, the handlers' side: a selected marker calls every onChange handler;
\* the one handler registered (Iterator.registerMarkerUpdate) is Painter.resetImage.
\* The markers' handlers run in registration order, from marker k on.
RECURSIVE notifyFrom(_, _)
notifyFrom(p, k) ==
    IF k > Len(MarkerNames) THEN p
    ELSE notifyFrom(IF p.markers[MarkerNames[k]].selected
                    THEN resetImage(p, MarkerNames[k]) ELSE p, k + 1)

\* ---------------------------------------------------------- EventsLoop
\* The components in the order the program registers them: painter, marker1,
\* marker2, iterator, tctx
ProgramComponents == <<"painter", "A", "B", "iterator", "tctx">>

\* registerComponent with the component put in front of the list
registerComponentFirst(comps, component) == <<component>> \o comps

\* EventsLoop.registerComponent, the list's side: components.push(component)
registerComponent(comps, component) == Append(comps, component)

\* redraw's loop `for (const component of this.components) component.render()`
\* from the k-th component on: the render calls it makes, in order
RECURSIVE renderLoop(_, _)
renderLoop(comps, k) ==
    IF k > Len(comps) THEN <<>>
    ELSE <<comps[k]>> \o renderLoop(comps, k + 1)

ProbeIdle == [start |-> Complex(0, 0), c |-> Complex(0, 0)]

\* The values the three number controls take, and the ones they start with (the
\* page that declares the controls is not part of the sources): any count of
\* iterations up to MaxControl; for the radius and the line width, which the code
\* only draws with or compares with 0, the values 0 and 1.
ControlValues(field) == IF field = "iterations" THEN 0..MaxControl ELSE 0..1
FirstControls == [iterations |-> MaxControl, radius |-> 1, lineWidth |-> 1]

\* const iterator = new Iterator(tctx, [marker1, marker2]) and
\* evLoop.registerComponent(iterator), which renders it once
ProgramIterator ==
    /\ callLog = <<>>
    /\ updateLog = <<>>
    /\ components = ProgramComponents
    /\ renderLog = ProgramComponents
    /\ shadow = [markers |-> markers, data |-> imageData, cur |-> currentPixel]
    /\ controls = FirstControls
    /\ opResult = <<>>
    /\ ctorArg = MarkerNames
    /\ ctorOutcome = newIterator(MarkerNames).outcome
    /\ iterator = <<iteratorRender(newIterator(MarkerNames).object[1], controls)>>

Init ==
    /\ W \in 1..MaxW
    /\ H \in 1..MaxH
    /\ W * H <= MaxCells
    /\ PIXEL_BATCH \in 1..MaxBatch
    /\ markers = InitialMarkers
    /\ domVariable \in Names
    /\ variableMarker = domVariable
    /\ imageData = [n \in 0..(W * H - 1) |-> Blank]
    /\ currentPixel = StartPixel
    /\ writes = <<>>
    /\ fullTicks = 0
    /\ tickLog = <<>>
    /\ notified = {}
    /\ beforeFilled = 0
    /\ probe = ProbeIdle
    /\ probeColor = <<>>
    /\ ProgramIterator

SetPainter(p) ==
    /\ imageData' = p.data
    /\ currentPixel' = p.cur
    /\ writes' = p.writes
    /\ fullTicks' = p.fullTicks

History(who, log) ==
    /\ notified' = who
    /\ tickLog' = log
    /\ beforeFilled' = Filled(imageData)

\* A tick: one run of computeBatchPixels on some sequence of clock readings. The
\* log of the tick is kept in tickLog when `logged`.
TickStep(logged) ==
    /\ currentPixel.x < W + MaxOverrun
    /\ \E res \in computeBatchPixels(PainterState) :
         LET full == IF res.cut \/ fullTicks = -1 THEN -1
                     ELSE IF fullTicks < W * H THEN fullTicks + 1 ELSE fullTicks
         IN  /\ SetPainter([res.p EXCEPT !.fullTicks = full])
             /\ History({}, IF logged THEN res.log ELSE <<>>)
    /\ UNCHANGED <<W, H, PIXEL_BATCH, markers, domVariable, variableMarker,
                   iterator, checkVars, renderLog>>

\* setInterval(this.computeBatchPixels.bind(this), this.PIXEL_BATCH_INTERVAL)
Tick == TickStep(FALSE)

\* the same callback, its clock readings and pixel computations logged
TickLogged == TickStep(TRUE)

\* EventsLoop.redraw with the controls holding `dom` and `ctl`: of the components'
\* render methods Painter.render re-reads the control into Painter.variableMarker
\* and Iterator.render re-reads the number controls into the Iterator's fields
redrawFrom(comps, dom, ctl) ==
    LET rendered == renderLoop(comps, 1)
        drawn(c) == \E k \in 1..Len(rendered) : rendered[k] = c
    IN  /\ renderLog' = rendered
        /\ variableMarker' = IF drawn("painter") THEN dom ELSE variableMarker
        /\ iterator' = IF drawn("iterator")
                       THEN [k \in 1..Len(iterator) |-> iteratorRender(iterator[k], ctl)]
                       ELSE iterator

redraw == redrawFrom(components, domVariable, controls)

\* setInterval(this.redraw.bind(this), 100) and the 'input' events of the controls
Redraw ==
    /\ redraw
    /\ History({}, <<>>)
    /\ UNCHANGED <<W, H, PIXEL_BATCH, markers, domVariable, imageData, currentPixel,
                   writes, fullTicks, checkVars>>

\* EventsLoop._mouseEventHandlers after the page is built, each handler named by
\* the object it is bound to: the TranslatingContext registers its 'move' handler
\* when it is constructed, then marker1 and marker2 register theirs.
mouseEventHandlers ==
    [down |-> MarkerNames, up |-> MarkerNames, move |-> <<"tctx">> \o MarkerNames]

\* MovableMarker.onChange of each marker after the page is built: Painter's
\* constructor registers resetImage on every marker of the iterator.
onChange == [n \in Names |-> <<"resetImage">>]

\* _onMouseUp's loop `for (const handler of this.onChange) handler(this)` from the
\* k-th handler on
RECURSIVE callOnChange(_, _, _)
callOnChange(world, owner, k) ==
    IF k > Len(onChange[owner]) THEN world
    ELSE callOnChange([world EXCEPT !.p = resetImage(world.p, owner),
                                    !.updates = Append(world.updates,
                                                       <<owner, onChange[owner][k]>>)],
                      owner, k + 1)

\* One handler called with the mouse at `real`.  The world is the markers, the
\* painter, the log of the calls and the log of the onChange calls.
\* TranslatingContext._onMouseMove keeps the mouse position, which is no state
\* here; _onMouseUp calls the marker's onChange handlers when the marker is selected.
callHandler(event, owner, real, world) ==
    LET logged == [world EXCEPT !.log = Append(world.log, <<"handler", event, owner>>)]
        m == world.markers[owner]
    IN  IF owner = "tctx" THEN logged
        ELSE IF event = "down"
        THEN [logged EXCEPT !.markers[owner] = onMouseDown(m, real.x, real.y)]
        ELSE IF event = "move"
        THEN [logged EXCEPT !.markers[owner] = onMouseMove(m, real.x, real.y)]
        ELSE LET called == IF m.selected THEN callOnChange(logged, owner, 1) ELSE logged
             IN  [called EXCEPT !.markers[owner] = onMouseUp(m)]

\* the loop over the handlers of the event, from the k-th on
RECURSIVE dispatchFrom(_, _, _, _)
dispatchFrom(event, real, world, k) ==
    IF k > Len(mouseEventHandlers[event]) THEN world
    ELSE dispatchFrom(event, real,
                      callHandler(event, mouseEventHandlers[event][k], real, world),
                      k + 1)

\* the callback with redraw called before the handlers
onMouseEventRedrawFirst(event, real) ==
    dispatchFrom(event, real,
                 [markers |-> markers, p |-> PainterState, log |-> <<<<"redraw">>>>,
                  updates |-> <<>>], 1)

\* The callback _onMouseEvent(event) returns: every handler of the event, then redraw
onMouseEvent(event, real) ==
    LET world == dispatchFrom(event, real,
                              [markers |-> markers, p |-> PainterState, log |-> <<>>,
                               updates |-> <<>>], 1)
    IN  [world EXCEPT !.log = Append(world.log, <<"redraw">>)]

\* A mouse event at one of the mouse positions.  The calls are kept in callLog
\* when `logged`.
MouseEventStep(event, logged) ==
    /\ \E real \in MousePositions :
         LET world == onMouseEvent(event, real)
         IN  /\ markers' = world.markers
             /\ SetPainter(world.p)
             /\ callLog' = IF logged THEN world.log ELSE <<>>
             /\ updateLog' = IF logged THEN world.updates ELSE <<>>
             /\ History({world.updates[k][1] : k \in 1..Len(world.updates)}, <<>>)
    /\ redraw
    /\ UNCHANGED <<W, H, PIXEL_BATCH, domVariable, probe, probeColor, iterVars, controls,
                   shadow, components>>

\* _onMouseEvent('down')
MouseDown == MouseEventStep("down", FALSE)

\* _onMouseEvent('move')
MouseMove == MouseEventStep("move", FALSE)

\* _onMouseEvent('up')
MouseUp == MouseEventStep("up", FALSE)

\* the same callbacks, their calls logged
MouseDownLogged == MouseEventStep("down", TRUE)

MouseMoveLogged == MouseEventStep("move", TRUE)

MouseUpLogged == MouseEventStep("up", TRUE)

\* the 'change' event with Painter.resetImage as its only listener, no redraw
ChangeVariableResetOnly ==
    /\ \E v \in Names \ {domVariable} : domVariable' = v
    /\ SetPainter(resetImage(PainterState, "undefined"))
    /\ History({}, <<>>)
    /\ UNCHANGED <<W, H, PIXEL_BATCH, markers, variableMarker, iterator, checkVars,
                   renderLog>>

\* the 'change' event of the 'painter-marker-variable' control: the listeners run in
\* the order they were added, EventsLoop._onControlEvent (redraw) before
\* Painter.resetImage, which receives the event
ChangeVariable ==
    /\ \E v \in Names \ {domVariable} : domVariable' = v
    /\ redrawFrom(components, domVariable', controls)
    /\ SetPainter(resetImage(PainterState, "undefined"))
    /\ History({}, <<>>)
    /\ UNCHANGED <<W, H, PIXEL_BATCH, markers, checkVars>>

Next == Tick \/ Redraw \/ MouseDown \/ MouseMove \/ MouseUp \/ ChangeVariable

Spec == Init /\ [][Next]_vars

\* A tick that finds work and does some: it moves the cursor.
TickWork == Tick /\ currentPixel' /= currentPixel

\* The page with its timer running: setInterval keeps delivering ticks, and a tick
\* that finds work computes at least one pixel.  The markers are pressed and
\* released where they are, not dragged.
NextLive == Tick \/ MouseDown \/ MouseUp \/ ChangeVariable

\* ENABLED <<TickWork>>_vars as a state predicate: the guard of Tick (a clock reading
\* within the budget is always among the readings, and PIXEL_BATCH is at least 1)
TickEnabled == currentPixel.x < W + MaxOverrun

\* WF_vars(TickWork), with ENABLED written out
TickFairness == []<>(~TickEnabled) \/ []<><<TickWork>>_vars

SpecLive == Init /\ [][NextLive]_vars /\ TickFairness

\* a step that blanks the buffer: a change of the designation, or the release of a
\* held marker that is not the variable one
Invalidation ==
    \/ ChangeVariable
    \/ MouseUp /\ \E n \in Names : markers[n].selected /\ n /= variableMarker

\* The painter alone, every tick logged: ticks and changes of the variable marker.
NextLogged == TickLogged \/ ChangeVariable

SpecLogged == Init /\ [][NextLogged]_vars

\* the 'input' event of one of the number controls: EventsLoop._onControlEvent,
\* which redraws
ControlInput ==
    /\ \E field \in DOMAIN controls :
         \E v \in ControlValues(field) \ {controls[field]} :
            controls' = [controls EXCEPT ![field] = v]
    /\ redrawFrom(components, domVariable, controls')
    /\ History({}, <<>>)
    /\ UNCHANGED <<W, H, PIXEL_BATCH, markers, domVariable, imageData, currentPixel,
                   writes, fullTicks, probe, probeColor, iterVars, shadow, callLog, updateLog, components>>

\* The painter and the number controls.
NextControls == Tick \/ ControlInput \/ ChangeVariable

SpecControls == Init /\ [][NextControls]_vars

\* The page from the first registerComponent call on.  The script that builds the
\* page runs the five calls one after the other; the timers and the listeners run
\* only once it has returned.
InitRegister ==
    /\ W \in 1..MaxW
    /\ H \in 1..MaxH
    /\ W * H <= MaxCells
    /\ PIXEL_BATCH = 1
    /\ markers = InitialMarkers
    /\ domVariable \in Names
    /\ variableMarker = domVariable
    /\ imageData = [n \in 0..(W * H - 1) |-> Blank]
    /\ currentPixel = StartPixel
    /\ writes = <<>>
    /\ fullTicks = 0
    /\ tickLog = <<>>
    /\ notified = {}
    /\ beforeFilled = 0
    /\ probe = ProbeIdle
    /\ probeColor = <<>>
    /\ callLog = <<>>
    /\ updateLog = <<>>
    /\ shadow = [markers |-> markers, data |-> imageData, cur |-> currentPixel]
    /\ controls = FirstControls
    /\ opResult = <<>>
    /\ ctorArg = MarkerNames
    /\ ctorOutcome = newIterator(MarkerNames).outcome
    /\ iterator = newIterator(MarkerNames).object
    /\ components = <<>>
    /\ renderLog = <<>>

Registered == Len(components) = Len(ProgramComponents)

\* evLoop.registerComponent(component): push, then redraw
RegisterComponent ==
    /\ ~Registered
    /\ components' = registerComponent(components, ProgramComponents[Len(components) + 1])
    /\ redrawFrom(components', domVariable, controls)
    /\ History({}, <<>>)
    /\ UNCHANGED <<W, H, PIXEL_BATCH, markers, domVariable, imageData, currentPixel,
                   writes, fullTicks, probe, probeColor, iterVars, controls, shadow,
                   callLog, updateLog>>

RedrawRegistered == Registered /\ Redraw

MouseDownRegistered == Registered /\ MouseDown

MouseMoveRegistered == Registered /\ MouseMove

MouseUpRegistered == Registered /\ MouseUp

ChangeVariableRegistered == Registered /\ ChangeVariable

NextRegister ==
    \/ RegisterComponent
    \/ RedrawRegistered
    \/ MouseDownRegistered
    \/ MouseMoveRegistered
    \/ MouseUpRegistered
    \/ ChangeVariableRegistered

SpecRegister == InitRegister /\ [][NextRegister]_vars

\* The markers and the painter, the calls of every mouse event logged.
NextEvents == Tick \/ MouseDownLogged \/ MouseMoveLogged \/ MouseUpLogged

InitEvents == Init /\ PIXEL_BATCH = 1

SpecEvents == InitEvents /\ [][NextEvents]_vars

\* The same callbacks on the smallest canvas, of one cell: the markers are dragged
\* over it as over any other, and the buffer has one pixel to fill.
InitDrag == InitEvents /\ W = 1 /\ H = 1

SpecDrag == InitDrag /\ [][NextEvents]_vars

\* The painter and the markers, every tick logged.
NextInputs == TickLogged \/ MouseDown \/ MouseMove \/ MouseUp \/ ChangeVariable

\* one pixel a tick: the logs stay short
InitInputs == Init /\ PIXEL_BATCH = 1

SpecInputs == InitInputs /\ [][NextInputs]_vars

\* ------------------------------------------------- two runs side by side
\* A second run of the page receives the same ticks with the same clock readings,
\* the same changes of the designation and mouse events of the same kind, at places
\* that leave the markers other than the variable one with the same fields in both
\* runs: the runs differ in where the variable marker is and whether it is held.
ShadowState ==
    [PainterState EXCEPT !.data = shadow.data, !.cur = shadow.cur,
                         !.markers = shadow.markers]

\* the clock readings of a tick's log
ClockOf(log) == SelectSeq(log, LAMBDA entry : entry[1] = "now")

SameFixed(m1, m2) == \A n \in Names \ {variableMarker} : m1[n] = m2[n]

TickPair ==
    /\ currentPixel.x < W + MaxOverrun
    /\ shadow.cur.x < W + MaxOverrun
    /\ \E res \in computeBatchPixels(PainterState) :
         \E res2 \in computeBatchPixels(ShadowState) :
            /\ ClockOf(res.log) = ClockOf(res2.log)
            /\ SetPainter([res.p EXCEPT !.fullTicks = -1])
            /\ shadow' = [shadow EXCEPT !.data = res2.p.data, !.cur = res2.p.cur]
    /\ History({}, <<>>)
    /\ UNCHANGED <<W, H, PIXEL_BATCH, markers, domVariable, variableMarker, iterator,
                   probe, probeColor, iterVars, controls, callLog, updateLog, components, renderLog>>

MouseDownPair ==
    /\ \E real \in MousePositions, real2 \in MousePositions :
         LET m1 == [n \in Names |-> onMouseDown(markers[n], real.x, real.y)]
             m2 == [n \in Names |-> onMouseDown(shadow.markers[n], real2.x, real2.y)]
         IN  /\ SameFixed(m1, m2)
             /\ markers' = m1
             /\ shadow' = [shadow EXCEPT !.markers = m2]
    /\ redraw
    /\ History({}, <<>>)
    /\ UNCHANGED <<W, H, PIXEL_BATCH, domVariable, imageData, currentPixel,
                   writes, fullTicks, probe, probeColor, iterVars, controls, callLog, updateLog, components>>

MouseMovePair ==
    /\ \E real \in MousePositions, real2 \in MousePositions :
         LET m1 == [n \in Names |-> onMouseMove(markers[n], real.x, real.y)]
             m2 == [n \in Names |-> onMouseMove(shadow.markers[n], real2.x, real2.y)]
         IN  /\ SameFixed(m1, m2)
             /\ markers' = m1
             /\ shadow' = [shadow EXCEPT !.markers = m2]
    /\ redraw
    /\ History({}, <<>>)
    /\ UNCHANGED <<W, H, PIXEL_BATCH, domVariable, imageData, currentPixel,
                   writes, fullTicks, probe, probeColor, iterVars, controls, callLog, updateLog, components>>

MouseUpPair ==
    /\ SetPainter(notifyFrom(PainterState, 1))
    /\ markers' = [n \in Names |-> onMouseUp(markers[n])]
    /\ LET p2 == notifyFrom(ShadowState, 1)
       IN  shadow' = [markers |-> [n \in Names |-> onMouseUp(shadow.markers[n])],
                      data |-> p2.data, cur |-> p2.cur]
    /\ redraw
    /\ History({n \in Names : markers[n].selected}, <<>>)
    /\ UNCHANGED <<W, H, PIXEL_BATCH, domVariable, probe, probeColor, iterVars, controls, callLog, updateLog, components>>

\* the designation changes in both runs, at a moment when the marker that stops
\* being the variable one has the same fields in both
ChangeVariablePair ==
    /\ shadow.markers = markers
    /\ \E v \in Names \ {domVariable} : domVariable' = v
    /\ redrawFrom(components, domVariable', controls)
    /\ SetPainter(resetImage(PainterState, "undefined"))
    /\ LET p2 == resetImage(ShadowState, "undefined")
       IN  shadow' = [shadow EXCEPT !.data = p2.data, !.cur = p2.cur]
    /\ History({}, <<>>)
    /\ UNCHANGED <<W, H, PIXEL_BATCH, markers, probe, probeColor, iterVars, controls, callLog, updateLog, components>>

NextPair ==
    TickPair \/ MouseDownPair \/ MouseMovePair \/ MouseUpPair \/ ChangeVariablePair

\* one pixel a tick
InitPair == Init /\ PIXEL_BATCH = 1

SpecPair == InitPair /\ [][NextPair]_vars

\* ------------------------------------------- the classifier on its own
\* The pure function of _getPixelColor, applied to every start and c of a grid.
GridStep == SCALE \div 2
Grid == {GridStep * k : k \in (0 - GridMax)..GridMax}

GridPoints == {Complex(r, i) : r \in Grid, i \in Grid}

\* a start far outside the grid, beyond 1.0 on both axes: (10, 10)
FarPoint == Complex(10 * SCALE, 10 * SCALE)

InitProbe ==
    /\ W = 1 /\ H = 1 /\ PIXEL_BATCH = 1
    /\ markers = InitialMarkers
    /\ domVariable = "A"
    /\ variableMarker = domVariable
    /\ imageData = [n \in 0..0 |-> Blank]
    /\ currentPixel = StartPixel
    /\ writes = <<>>
    /\ fullTicks = 0
    /\ tickLog = <<>>
    /\ notified = {}
    /\ beforeFilled = 0
    /\ probe \in [start : GridPoints \cup {FarPoint}, c : GridPoints]
    /\ probeColor = <<>>
    /\ ProgramIterator

\* one call of the iteration loop of _getPixelColor on the list [start, c]
Classify ==
    /\ probeColor = <<>>
    /\ probeColor' = colorLoop(<<probe.start, probe.c>>, 0)
    /\ UNCHANGED <<W, H, PIXEL_BATCH, markers, domVariable, variableMarker, imageData,
                   currentPixel, writes, fullTicks, tickLog, notified, beforeFilled, probe,
                   iterVars, controls, iterator, shadow, callLog, updateLog, components, renderLog>>

NextClassify == Classify

SpecClassify == InitProbe /\ [][NextClassify]_vars

\* ------------------------------------------- the Iterator on its own
\* The constructor on every prefix of the marker list, the empty one included, and
\* add, multiply and iter on integer-valued operands.
IntPoints ==
    {Complex(r * SCALE, i * SCALE) : r \in (0 - ArithMax)..ArithMax,
                                     i \in (0 - ArithMax)..ArithMax}

InitIterator ==
    /\ W = 1 /\ H = 1 /\ PIXEL_BATCH = 1
    /\ markers = InitialMarkers
    /\ domVariable = "A"
    /\ variableMarker = domVariable
    /\ imageData = [n \in 0..0 |-> Blank]
    /\ currentPixel = StartPixel
    /\ writes = <<>>
    /\ fullTicks = 0
    /\ tickLog = <<>>
    /\ notified = {}
    /\ beforeFilled = 0
    /\ probe \in [start : IntPoints, c : IntPoints]
    /\ probeColor = <<>>
    /\ controls = FirstControls
    /\ opResult = <<>>
    /\ ctorArg \in {SubSeq(MarkerNames, 1, n) : n \in 0..Len(MarkerNames)}
    /\ ctorOutcome = "none"
    /\ iterator = <<>>
    /\ callLog = <<>>
    /\ updateLog = <<>>
    /\ components = <<>>
    /\ renderLog = <<>>
    /\ shadow = [markers |-> markers, data |-> imageData, cur |-> currentPixel]

painterVars == <<W, H, PIXEL_BATCH, markers, domVariable, variableMarker, imageData,
                 currentPixel, writes, fullTicks, tickLog, notified, beforeFilled, callLog,
                 updateLog, components, renderLog>>

\* const iterator = new Iterator(tctx, markers)
Construct ==
    /\ ctorOutcome = "none"
    /\ LET made == newIterator(ctorArg)
       IN  ctorOutcome' = made.outcome /\ iterator' = made.object
    /\ UNCHANGED <<painterVars, probe, probeColor, controls, opResult, ctorArg, shadow>>

\* the list an Iterator passes to iter (Iterator.render): one value per marker
iterArgs(it) == SubSeq(<<probe.start, probe.c>>, 1, Len(it.markers))

\* iterator.iter(complexes), a method call: it needs an Iterator object.  The value
\* is <<>> when the call throws (complexes[0] of an empty list is undefined).
IterCall ==
    /\ opResult = <<>>
    /\ \E k \in 1..Len(iterator) :
         LET args == iterArgs(iterator[k])
         IN  opResult' = [op |-> "iter", args |-> args,
                          value |-> IF Len(args) = 0 THEN <<>> ELSE <<iter(args)>>]
    /\ UNCHANGED <<painterVars, probe, probeColor, controls, ctorArg, ctorOutcome, iterator,
                   shadow>>

\* a.add(b)
AddCall ==
    /\ opResult = <<>>
    /\ opResult' = [op |-> "add", args |-> <<probe.start, probe.c>>,
                    value |-> <<add(probe.start, probe.c)>>]
    /\ UNCHANGED <<painterVars, probe, probeColor, controls, ctorArg, ctorOutcome, iterator,
                   shadow>>

\* a.multiply(b)
MultiplyCall ==
    /\ opResult = <<>>
    /\ opResult' = [op |-> "multiply", args |-> <<probe.start, probe.c>>,
                    value |-> <<multiply(probe.start, probe.c)>>]
    /\ UNCHANGED <<painterVars, probe, probeColor, controls, ctorArg, ctorOutcome, iterator,
                   shadow>>

NextIterator == Construct \/ IterCall \/ AddCall \/ MultiplyCall

SpecIterator == InitIterator /\ [][NextIterator]_vars

\* ------------------------------------------- the line trace on its own
\* The loop of Iterator.render on every start and c of the grid, with the
\* 'iterations' control at any of its values.
TraceCall ==
    /\ opResult = <<>>
    /\ \E k \in 1..Len(iterator) :
         opResult' = [op |-> "render", args |-> <<probe.start, probe.c>>,
                      maxIter |-> iterator[k].MAX_ITER,
                      value |-> traceLoop(<<probe.start, probe.c>>, 0,
                                          iterator[k].MAX_ITER)]
    /\ UNCHANGED <<painterVars, probe, probeColor, controls, ctorArg, ctorOutcome, iterator,
                   shadow>>

NextTrace == TraceCall \/ ControlInput

SpecTrace == InitProbe /\ [][NextTrace]_vars

\* ============================================================ properties
AllBlank == \A n \in DOMAIN imageData : imageData[n] = Blank

\* the cursor as a linear pixel index
CursorIndex == currentPixel.x + currentPixel.y * W

\* C1: after a marker-update notification for a marker that is not the variable
\* marker, every pixel of the buffer is blank and the cursor is at (-1, 0).
C1_FixedMarkerUpdateResets ==
    (\E n \in notified : n /= variableMarker)
        => AllBlank /\ currentPixel = StartPixel

\* a release of the fixed marker has just blanked a buffer that held pixels
C1_Witness ==
    /\ \E n \in notified : n /= variableMarker
    /\ beforeFilled > 0
    /\ AllBlank

\* C2: a marker-update notification for the variable marker alone leaves every
\* pixel of the buffer and the cursor unchanged.
C2_VariableMarkerUpdateKeeps ==
    [][notified' = {variableMarker}
          => imageData' = imageData /\ currentPixel' = currentPixel]_vars

\* the variable marker alone has just been released over a buffer that holds pixels
C2_Witness ==
    /\ notified = {variableMarker}
    /\ beforeFilled > 0
    /\ Filled(imageData) = beforeFilled

\* C3: a change of the variable marker leaves the buffer blank, the cursor at the
\* start and Painter.variableMarker at the new value, and every pixel of the
\* current generation was computed under the current designation.
C3_DesignationChangeResets ==
    [][/\ domVariable' /= domVariable
            => /\ \A n \in DOMAIN imageData' : imageData'[n] = Blank
               /\ currentPixel' = StartPixel
               /\ variableMarker' = domVariable'
       /\ \A k \in 1..Len(writes') : writes'[k].variable = domVariable']_vars

\* the designation has just been changed over a buffer that held pixels
C3_Witness ==
    /\ notified = {}
    /\ beforeFilled > 0
    /\ AllBlank

\* C4: within a generation the buffer indexes are written in rising order with
\* none skipped: an index is written only after the index before it.
C4_RowMajorNoSkip ==
    \A k \in 1..Len(writes) :
        /\ writes[k].i = 0 \/ \E j \in 1..(k - 1) : writes[j].i = writes[k].i - 1
        /\ \A j \in 1..(k - 1) : writes[j].i <= writes[k].i

\* a generation filled over several ticks has reached the second row
C4_Witness ==
    /\ fullTicks >= 2
    /\ \E k \in 1..Len(writes) : writes[k].y >= 1 /\ writes[k].x >= 1

\* C5: within a generation no buffer index is written twice.
C5_NoDuplicateWrites ==
    \A j, k \in 1..Len(writes) : j /= k => writes[j].i /= writes[k].i

\* C6: after ceil(W * H / PIXEL_BATCH) ticks on a freshly reset buffer, none of them
\* cut short by the clock, every pixel has been computed.
C6_FilledAfterEnoughTicks ==
    (fullTicks >= 0 /\ fullTicks * PIXEL_BATCH >= W * H)
        => Filled(imageData) = W * H

\* C7: once every pixel of the buffer has been computed a tick changes neither the
\* buffer nor the cursor.
C7_CompleteIsFixedPoint ==
    [][(Filled(imageData) = W * H /\ Tick)
          => imageData' = imageData /\ currentPixel' = currentPixel]_vars

\* C8: the cursor's linear index lies in [-1, W * H] and is -1 exactly when no pixel
\* of the current generation has been started.
C8_CursorInRange ==
    /\ CursorIndex >= -1
    /\ CursorIndex <= W * H
    /\ (CursorIndex = -1) <=> (writes = <<>>)

\* C9: a tick computes at most PIXEL_BATCH pixels, and none after a clock reading
\* that shows more than PIXEL_BATCH_INTERVAL elapsed.
C9_TickBounded ==
    /\ Cardinality({k \in 1..Len(tickLog) : tickLog[k][1] = "pixel"}) <= PIXEL_BATCH
    /\ \A j, k \in 1..Len(tickLog) :
          (j < k /\ tickLog[j][1] = "now" /\ tickLog[j][2] > PIXEL_BATCH_INTERVAL)
              => tickLog[k][1] /= "pixel"

\* a tick that computed a pixel and was then ended by the clock
C9_Witness ==
    /\ Len(tickLog) >= 3
    /\ tickLog[2][1] = "pixel"
    /\ tickLog[Len(tickLog)][1] = "now"
    /\ tickLog[Len(tickLog)][2] > PIXEL_BATCH_INTERVAL

\* The reference classifier.  RefOrbit is the orbit z(0) = start, z(i+1) = iter([z(i), c]),
\* as the sequence <<z(0), ..., z(n)>>.
RECURSIVE RefOrbit(_, _, _)
RefOrbit(orbit, c, n) ==
    IF Len(orbit) > n THEN orbit
    ELSE RefOrbit(Append(orbit, iter(<<orbit[Len(orbit)], c>>)), c, n)

RefEscaped(z) == FGt(FAbs(z.r), SCALE) /\ FGt(FAbs(z.i), SCALE)

RefStable(z, prev) ==
    FLt(FAbs(FSub(z.r, prev.r)), Hundredth) /\ FLt(FAbs(FSub(z.i, prev.i)), Hundredth)

\* the loop indexes i (from 0) at which the step from z(i) to z(i+1) passes a test
RefHits(start, c) ==
    LET orbit == RefOrbit(<<start>>, c, Len(ITER_COLORS))
    IN  {i \in 0..(Len(ITER_COLORS) - 1) :
            RefEscaped(orbit[i + 2]) \/ RefStable(orbit[i + 2], orbit[i + 1])}

RefColor(start, c) ==
    LET hits == RefHits(start, c)
    IN  IF hits = {} THEN ITER_COLORS[Len(ITER_COLORS)]
        ELSE ITER_COLORS[(CHOOSE i \in hits : \A j \in hits : i <= j) + 1]

\* C10: the color _getPixelColor returns for [start, c] is the reference classifier's,
\* is an entry of the palette, and is palette[0] for start = c = (0, 0).
C10_ClassifierMatchesReference ==
    probeColor /= <<>> =>
        /\ probeColor = RefColor(probe.start, probe.c)
        /\ \E k \in 1..Len(ITER_COLORS) : probeColor = ITER_COLORS[k]
        /\ (probe.start = Complex(0, 0) /\ probe.c = Complex(0, 0))
              => probeColor = ITER_COLORS[1]

\* the classifier has been applied to start = c = (0, 0), which the stability test
\* alone classifies at index 0
C10_Witness ==
    /\ probeColor /= <<>>
    /\ probe.start = Complex(0, 0) /\ probe.c = Complex(0, 0)
    /\ RefHits(probe.start, probe.c) /= {}
    /\ ~RefEscaped(iter(<<probe.start, probe.c>>))

\* C11: for a start that is beyond 1.0 on both axes before any step, the classifier
\* returns palette[0].
C11_EscapedStartIsIndexZero ==
    (probeColor /= <<>> /\ RefEscaped(probe.start)) => probeColor = ITER_COLORS[1]

\* The products and sums of integer-valued complex numbers in plain integer
\* arithmetic, on the whole parts.
WholeProduct(a, b) ==
    LET ar == a.r \div SCALE
        ai == a.i \div SCALE
        br == b.r \div SCALE
        bi == b.i \div SCALE
    IN  [r |-> (ar * br - ai * bi) * SCALE, i |-> (ar * bi + ai * br) * SCALE]

WholeSum(a, b) == [r |-> a.r + b.r, i |-> a.i + b.i]

\* C12: iter returns z*z for [z] and z*z + c for [z, c], multiply and add are the
\* complex product and sum, and the operands and the list are as they were.
C12_IterAddMultiply ==
    opResult /= <<>> =>
        LET args == opResult.args
        IN  /\ args = SubSeq(<<probe.start, probe.c>>, 1, Len(args))
            /\ opResult.op = "add" => opResult.value = <<WholeSum(args[1], args[2])>>
            /\ opResult.op = "multiply"
                  => opResult.value = <<WholeProduct(args[1], args[2])>>
            /\ (opResult.op = "iter" /\ Len(args) = 1)
                  => opResult.value = <<WholeProduct(args[1], args[1])>>
            /\ (opResult.op = "iter" /\ Len(args) = 2)
                  => opResult.value = <<WholeSum(WholeProduct(args[1], args[1]), args[2])>>

\* iter has been called on the one-element list [(1, 2)]
C12_Witness ==
    /\ opResult /= <<>>
    /\ opResult.op = "iter"
    /\ opResult.args = <<Complex(1 * SCALE, 2 * SCALE)>>
    /\ opResult.value = <<Complex(-3 * SCALE, 4 * SCALE)>>

\* C17: the constructor given an empty marker list ends in an error and creates no
\* object; every Iterator object has at least one marker and iter never runs on an
\* empty list.
C17_EmptyIteratorFails ==
    /\ \A k \in 1..Len(iterator) : Len(iterator[k].markers) >= 1
    /\ (Len(ctorArg) = 0 /\ ctorOutcome /= "none")
          => ctorOutcome = "error" /\ iterator = <<>>
    /\ (opResult /= <<>> /\ opResult.op = "iter") => Len(opResult.args) >= 1

\* the constructor has run on the empty marker list
C17_Witness ==
    /\ ctorArg = <<>>
    /\ ctorOutcome = "error"

\* the plane coordinate of pixel (x, y)
PlaneOf(x, y) ==
    Complex(fromCanvasX(x * CellPx), fromCanvasY(y * CellPx))

\* C13: the list a pixel is classified from has, when A is the variable marker, the
\* pixel's plane coordinate in the A slot (the start) and B's value in the B slot
\* (c), and when B is, A's value in the A slot and the pixel's coordinate in the B
\* slot.
C13_InputsByDesignation ==
    \A k \in 1..Len(tickLog) :
        (tickLog[k][1] = "pixel" /\ tickLog[k][4] /= <<>>) =>
            LET pixel == tickLog[k][3]
                coord == PlaneOf(pixel.x, pixel.y)
                valueOf(n) == Complex(markers[n].x, markers[n].y)
            IN  /\ Len(tickLog[k][4]) = 2
                /\ variableMarker = "A" => tickLog[k][4] = <<coord, valueOf("B")>>
                /\ variableMarker = "B" => tickLog[k][4] = <<valueOf("A"), coord>>

\* a pixel has been classified in Mandelbrot mode after marker A was dragged
C13_Witness ==
    /\ variableMarker = "B"
    /\ markers["A"] /= InitialMarkers["A"]
    /\ \E k \in 1..Len(tickLog) : tickLog[k][1] = "pixel" /\ tickLog[k][4] /= <<>>

\* C14: two runs that receive the same ticks, designations and fixed-marker values
\* and differ in the variable marker's positions have the same buffer and cursor.
C14_FieldIgnoresVariableMarker ==
    /\ shadow.data = imageData
    /\ shadow.cur = currentPixel

\* a tick has just computed a pixel while the variable marker is at different
\* places in the two runs
C14_Witness ==
    /\ Filled(imageData) > beforeFilled
    /\ shadow.markers[variableMarker].x /= markers[variableMarker].x

\* C15: between callbacks every pixel is blank or holds a palette color written
\* whole, pixel n is non-blank exactly when n is at or before the cursor's linear
\* index, and the cursor is at the start only when the whole buffer is blank.
C15_ConsistentMix ==
    /\ \A n \in DOMAIN imageData :
          \/ imageData[n] = Blank
          \/ \E k \in 1..Len(ITER_COLORS) :
                imageData[n] = <<ITER_COLORS[k][1], ITER_COLORS[k][2], ITER_COLORS[k][3], 250>>
    /\ \A n \in DOMAIN imageData : (imageData[n] /= Blank) <=> (n <= CursorIndex)
    /\ currentPixel = StartPixel => AllBlank

\* a fill that a tick has just taken further is part done
C15_Witness ==
    /\ Filled(imageData) > beforeFilled
    /\ beforeFilled > 0
    /\ Filled(imageData) < W * H

\* C16: a computed pixel has the alpha of full opacity, 255, as a blank pixel has.
C16_FullOpacity ==
    \A n \in DOMAIN imageData : imageData[n][4] = Blank[4]

\* C18: if invalidations eventually stop then eventually every pixel of the buffer
\* is computed, for good, and from some point on the buffer does not change.
C18_EventuallyFilled ==
    <>[][~Invalidation]_vars
        => /\ <>[](Filled(imageData) = W * H)
           /\ <>[][imageData' = imageData]_vars

\* a fill has run to its end: every pixel is computed and the cursor is past the
\* last row
C18_Witness ==
    /\ Filled(imageData) = W * H
    /\ currentPixel.y >= H
    /\ W * H > 1

\* C19: a change of the 'iterations', 'iterations-radius' or 'iterations-line-width'
\* control leaves the buffer and the cursor as they are, and leaves the color of
\* every pixel of the field, computed from then on, as it was before.
C19_ControlsLeaveField ==
    [][controls' /= controls
          => /\ imageData' = imageData
             /\ currentPixel' = currentPixel
             /\ \A x \in 0..W, y \in 0..(H - 1) :
                   getPixelColor([x |-> x, y |-> y])' = getPixelColor([x |-> x, y |-> y])]_vars

\* a tick has just computed a pixel with the 'iterations' control, and MAX_ITER, at 0
C19_Witness ==
    /\ controls.iterations = 0
    /\ \A k \in 1..Len(iterator) : iterator[k].MAX_ITER = 0
    /\ Filled(imageData) > beforeFilled
    /\ \E n \in DOMAIN imageData :
          imageData[n] /= Blank /\ imageData[n][1] /= ITER_COLORS[Len(ITER_COLORS)][1]

\* C20: a mouse event calls every handler registered for its type, in the order
\* of registration, and then redraws: the redraw is the last call and the only one.
C20_HandlersBeforeRedraw ==
    callLog /= <<>> =>
        LET n == Len(callLog)
            event == callLog[1][2]
        IN  /\ callLog[n] = <<"redraw">>
            /\ n - 1 = Len(mouseEventHandlers[event])
            /\ \A k \in 1..(n - 1) :
                  callLog[k] = <<"handler", event, mouseEventHandlers[event][k]>>

\* a 'move' event has called its three handlers and moved a held marker
C20_Witness ==
    /\ Len(callLog) = 4
    /\ callLog[1] = <<"handler", "move", "tctx">>
    /\ \E n \in Names : markers[n].selected /\ markers[n] /= [InitialMarkers[n] EXCEPT !.selected = TRUE]

\* C21: every redraw renders each registered component exactly once, in the order
\* of registration, and the redraw of registerComponent includes the new component:
\* the render calls of the last redraw are the registered components, in order.
C21_RenderInRegistrationOrder ==
    /\ Len(renderLog) = Len(components)
    /\ \A k \in 1..Len(components) :
          /\ renderLog[k] = components[k]
          /\ Cardinality({j \in 1..Len(renderLog) : renderLog[j] = components[k]}) = 1
    /\ \A k \in 1..Len(components) : components[k] = ProgramComponents[k]

\* the third registration has redrawn the painter and the two markers
C21_Witness ==
    /\ components = <<"painter", "A", "B">>
    /\ renderLog = <<"painter", "A", "B">>

\* the pixels computeNextPixel can write at index n: column n mod W of row n div W,
\* and column W of the row before
PixelsOfIndex(n) ==
    {pixel \in [x : 0..W, y : 0..(H - 1)] : pixel.x + pixel.y * W = n}

\* C22: in every state, a drag of the fixed marker in progress included, every
\* non-blank pixel holds a color computed from the fixed marker's current position:
\* the color the classifier gives now for a pixel written at that index.
C22_PixelsFromCurrentFixedMarker ==
    \A n \in DOMAIN imageData :
        imageData[n] /= Blank =>
            \E pixel \in PixelsOfIndex(n) :
                LET color == getPixelColor(pixel)
                IN  imageData[n] = <<color[1], color[2], color[3], imageData[n][4]>>

\* C23: a marker's position changes only in a mouse-move that finds it selected; it
\* becomes selected only in a mouse-down inside its hit radius; every mouse-up
\* leaves it unselected; its update handlers are called once each in a mouse-up
\* that finds it selected, and in no other callback.  (A mouse-up is a step of
\* MouseUpLogged; the log of such a step starts with an 'up' handler.)
C23_DragProtocol ==
    [][/\ \A n \in Names :
             /\ (markers'[n].x /= markers[n].x \/ markers'[n].y /= markers[n].y)
                   => MouseMoveLogged /\ markers[n].selected
             /\ (~markers[n].selected /\ markers'[n].selected)
                   => /\ MouseDownLogged
                      /\ \E real \in MousePositions :
                            onMouseDown(markers[n], real.x, real.y).selected
             /\ n \in notified' => MouseUpLogged /\ markers[n].selected
       /\ (callLog' /= <<>> /\ callLog'[1][2] = "up" /\ MouseUpLogged) =>
             \A n \in Names :
                /\ ~markers'[n].selected
                /\ Cardinality({k \in 1..Len(updateLog') : updateLog'[k][1] = n})
                      = IF markers[n].selected THEN Len(onChange[n]) ELSE 0
      ]_vars

\* a marker that was dragged away has just been released: one call of its handler
C23_Witness ==
    \E n \in Names :
        /\ updateLog = <<<<n, "resetImage">>>>
        /\ ~markers[n].selected
        /\ <<markers[n].x, markers[n].y>> /= <<InitialMarkers[n].x, InitialMarkers[n].y>>

\* an orbit value closer to 0 than MAX_ITER_DIST_FROM_0 on one axis at least
NearZeroOnAnAxis(z) == FLt(FAbs(z.r), Hundredth) \/ FLt(FAbs(z.i), Hundredth)

\* C24: one line trace of Iterator.render makes at most MAX_ITER iteration steps,
\* and stops as soon as the orbit value is closer to 0 than 0.01 on any axis: no
\* step follows such a value.
C24_TraceBoundedAndStopsNearZero ==
    (opResult /= <<>> /\ opResult.op = "render") =>
        /\ Len(opResult.value) <= opResult.maxIter
        /\ \A k \in 1..(Len(opResult.value) - 1) : ~NearZeroOnAnAxis(opResult.value[k])

\* C25: every pixel computeNextPixel passes to the classifier is inside the grid,
\* 0 <= x < W and 0 <= y < H, and every write it makes is at an index of the
\* buffer, 0 <= i < W * H.
C25_CallsAndWritesInRange ==
    \A k \in 1..Len(writes) :
        /\ writes[k].x >= 0 /\ writes[k].x < W
        /\ writes[k].y >= 0 /\ writes[k].y < H
        /\ writes[k].i >= 0 /\ writes[k].i < W * H

\* the last write of the current generation at index n, as a set: empty or one write
LastWriteAt(n) ==
    {writes[k] : k \in {j \in 1..Len(writes) :
                           /\ writes[j].i = n
                           /\ \A l \in (j + 1)..Len(writes) : writes[l].i /= n}}

\* C26: between two computeNextPixel calls and between two ticks, a non-blank
\* pixel at index n holds the color computed for its own grid position
\* (n mod W, n div W), never one computed for another position.
C26_PixelShowsOwnCoordinate ==
    \A n \in DOMAIN imageData :
        imageData[n] /= Blank =>
            \A w \in LastWriteAt(n) : w.x = n % W /\ w.y = n \div W

\* C27: after any sequence of mouse-down, mouse-move and mouse-up events at most
\* one marker is selected: A and B are never selected together.
C27_AtMostOneSelected ==
    Cardinality({n \in Names : markers[n].selected}) <= 1

====
